---- MODULE Spec2Model ----
(***************************************************************************)
(* Model of hwphysics/src/data.rs: GearDataManager, an archetype-based     *)
(* columnar store.  Record types are registered, entities (gear ids) get   *)
(* records attached/detached, which moves them between fixed-size blocks,  *)
(* and queries iterate over the blocks whose mask covers the query.        *)
(*                                                                         *)
(* Block indices, slot indices and type indices are 0-based as in the      *)
(* source; TLA+ sequences are 1-based, so blocks[b + 1] is block b.        *)
(* A 64-bit mask is modelled as the set of its set bit positions.          *)
(***************************************************************************)
EXTENDS Integers, Sequences, FiniteSets, TLC

(***************************************************************************)
(* Bounds of the model                                                     *)
(***************************************************************************)
MaxId == 2          \* gear ids are 1..MaxId (the source has 1..65535)
ValueCap == 3       \* a write query increments values below ValueCap only
MaxCalls == 5       \* calls made on one store
MaxLayoutBlocks == 2 \* blocks created in the layout specification
MaxRegistryCalls == 67 \* register calls made in the registry specification

(***************************************************************************)
(* Program constants                                                       *)
(***************************************************************************)
BLOCK_SIZE == 32768
GearIdSize == 2     \* size_of::<GearId>(), a NonZeroU16
MaxTypeCount == 64  \* length of element_sizes and component_blocks
U16 == 65536        \* 2^16: u16 arithmetic is modulo U16 in release builds

Ids == 1..MaxId
\* The values supplied to add.  The store copies values and never inspects
\* them, so two values are enough to tell a supplied value from a stored one.
Values == {1, 2}
Uninit == 0         \* a byte range of a block that was never written:
                    \* MaybeUninit::uninit(), an indeterminate value

(***************************************************************************)
(* The record types callers use.  TypeIds are the types of the store       *)
(* specification; their sizes are such that every combination fits a       *)
(* block and blocks are small: a block of A has 2 slots, a block of B and  *)
(* a block of A and B have 1 slot.  LayoutTypeIds adds two types whose     *)
(* sizes are legal for register (<= 65535) but do not fit a block, alone   *)
(* (E) or together (D and B, D and E), for the layout specification.       *)
(***************************************************************************)
TypeIds == {"A", "B"}
LayoutTypeIds == TypeIds \cup {"D", "E"}

\* The types of the registry specification: more types than the registry
\* has room for, the k-th of them named by the numeral of k.
RegistryTypeCount == MaxTypeCount + 2
RegistryType(k) == ToString(k)

\* size_of::<T>()
SizeOf(t) ==
    CASE t = "A" -> 10922
      [] t = "B" -> 16383
      [] t = "D" -> 20000
      [] t = "E" -> 65535
      [] OTHER -> 4

VARIABLES
    types,          \* Vec<TypeId>: registered types in registration order
    element_sizes,  \* [u16; 64]: byte size per type index
    blocks,         \* Vec<DataBlock>
    block_masks,    \* Vec<u64>: mask of each block
    lookup,         \* Box<[LookupEntry]>: gear id -> (index, block_index)
    debug,          \* build profile: TRUE when debug assertions are compiled in
    last,           \* the last call made on the store and how it ended
    calls,          \* number of calls made on the store so far
    visits          \* the callback invocations of the last iter call, in order

vars == <<types, element_sizes, blocks, block_masks, lookup, debug, last, calls, visits>>

(***************************************************************************)
(* Small helpers                                                           *)
(***************************************************************************)
Min(S) == CHOOSE x \in S : \A y \in S : x <= y

\* self.types.iter().position(|id| *id == type_id): 0-based index, or -1 for None
Position(ts, t) ==
    IF \E k \in 1..Len(ts) : ts[k] = t
    THEN Min({k \in 1..Len(ts) : ts[k] = t}) - 1
    ELSE -1

RECURSIVE SumSizes(_, _)
SumSizes(sizes, S) ==
    IF S = {} THEN 0
    ELSE LET i == Min(S) IN sizes[i + 1] + SumSizes(sizes, S \ {i})

(***************************************************************************)
(* LookupEntry                                                             *)
(***************************************************************************)
\* LookupEntry::default(): index None (0), block_index 0
LookupDefault == [index |-> 0, block_index |-> 0]

\* LookupEntry::new: index is stored as NonZeroU16(index + 1)
LookupNew(block_index, index) == [index |-> index + 1, block_index |-> block_index]

(***************************************************************************)
(* DataBlock                                                               *)
(***************************************************************************)
\* the types of mask that element_sizes (a slice of the registered sizes) covers
PresentTypes(mask, sizes) == {i \in mask : i < Len(sizes)}

\* total_size: u16 = sizes of the types in mask, .sum()
TotalSize(mask, sizes) == SumSizes(sizes, PresentTypes(mask, sizes))

\* byte offset of column i: the identifier array, then the columns of the
\* present types below i
ColumnOffset(mask, sizes, max_elements, i) ==
    GearIdSize * max_elements
        + SumSizes(sizes, {j \in PresentTypes(mask, sizes) : j < i}) * max_elements

\* DataBlock::new(mask, element_sizes).  The u16 sum panics on overflow in a
\* debug build and wraps in a release build; data[offset..] panics when
\* offset is beyond the block.
DataBlockNew(mask, sizes, dbg) ==
    LET exact == TotalSize(mask, sizes)
        total_size == exact % U16
        max_elements == BLOCK_SIZE \div (total_size + GearIdSize)
        present == PresentTypes(mask, sizes)
        offsets == [i \in present |-> ColumnOffset(mask, sizes, max_elements, i)]
    IN  [status |-> IF dbg /\ exact >= U16 THEN "panic"
                    ELSE IF \E i \in present : offsets[i] > BLOCK_SIZE THEN "panic"
                    ELSE "ok",
         block |-> [max_elements |-> max_elements,
                    elements_count |-> 0,
                    gear_ids |-> [k \in 0..(max_elements - 1) |-> Uninit],
                    component_blocks |-> offsets,
                    columns |-> [i \in present |->
                                    [k \in 0..(max_elements - 1) |-> Uninit]],
                    element_sizes |-> sizes]]

\* DataBlock::is_full
IsFull(block) == block.elements_count = block.max_elements

(***************************************************************************)
(* GearDataManager: the store as a value, so that a handler's calls chain  *)
(***************************************************************************)
Mgr == [types |-> types, element_sizes |-> element_sizes, blocks |-> blocks,
        block_masks |-> block_masks, lookup |-> lookup, status |-> "ok"]

\* ensure_block that takes the first block with the mask, full or not
EnsureBlockIgnoreFull(m, mask, dbg) ==
    LET found == {i \in 1..Len(m.block_masks) : m.block_masks[i] = mask}
    IN  IF found # {}
        THEN [m |-> m, index |-> Min(found) - 1]
        ELSE LET sizes == [k \in 1..Len(m.types) |-> m.element_sizes[k - 1]]
                 new == DataBlockNew(mask, sizes, dbg)
             IN  IF new.status # "ok"
                 THEN [m |-> [m EXCEPT !.status = new.status], index |-> -1]
                 ELSE [m |-> [m EXCEPT !.blocks = Append(@, new.block),
                                       !.block_masks = Append(@, mask)],
                       index |-> Len(m.blocks)]

\* ensure_block that pushes a new block on every call
EnsureBlockAlwaysNew(m, mask, dbg) ==
    LET sizes == [k \in 1..Len(m.types) |-> m.element_sizes[k - 1]]
        new == DataBlockNew(mask, sizes, dbg)
    IN  IF new.status # "ok"
        THEN [m |-> [m EXCEPT !.status = new.status], index |-> -1]
        ELSE [m |-> [m EXCEPT !.blocks = Append(@, new.block),
                              !.block_masks = Append(@, mask)],
              index |-> Len(m.blocks)]

\* GearDataManager::ensure_block: first block with this mask that is not
\* full, else a new block is pushed.  Returns the store and the block index.
EnsureBlock(m, mask, dbg) ==
    LET found == {i \in 1..Len(m.block_masks) :
                     m.block_masks[i] = mask /\ ~IsFull(m.blocks[i])}
    IN  IF found # {}
        THEN [m |-> m, index |-> Min(found) - 1]
        ELSE LET sizes == [k \in 1..Len(m.types) |-> m.element_sizes[k - 1]]
                 new == DataBlockNew(mask, sizes, dbg)
             IN  IF new.status # "ok"
                 THEN [m |-> [m EXCEPT !.status = new.status], index |-> -1]
                 ELSE [m |-> [m EXCEPT !.blocks = Append(@, new.block),
                                       !.block_masks = Append(@, mask)],
                       index |-> Len(m.blocks)]

NoCall == [op |-> "new", gear_id |-> 0, type |-> "", value |-> 0,
           query |-> <<>>, mutable |-> FALSE, status |-> "ok"]

Call(op, id, t, v, status) ==
    [op |-> op, gear_id |-> id, type |-> t, value |-> v,
     query |-> <<>>, mutable |-> FALSE, status |-> status]

\* GearDataManager::new
Init ==
    /\ types = <<>>
    /\ element_sizes = [i \in 0..(MaxTypeCount - 1) |-> 0]
    /\ blocks = <<>>
    /\ block_masks = <<>>
    /\ lookup = [id \in Ids |-> LookupDefault]
    /\ debug \in BOOLEAN
    /\ last = NoCall
    /\ calls = 0
    /\ visits = <<>>

\* a panic ends the program: no call follows it
Running == last.status = "ok" /\ calls < MaxCalls

\* register without the contains check: the type is appended again
RegisterCallNoContains(t) ==
    /\ IF Len(types) >= MaxTypeCount
       THEN /\ UNCHANGED <<types, element_sizes>>
            /\ last' = Call("register", 0, t, 0, "panic")
       ELSE /\ element_sizes' = [element_sizes EXCEPT ![Len(types)] = SizeOf(t)]
            /\ types' = Append(types, t)
            /\ last' = Call("register", 0, t, 0, "ok")
    /\ visits' = <<>>
    /\ calls' = calls + 1
    /\ UNCHANGED <<blocks, block_masks, lookup, debug>>

\* register with a registry that grows past element_sizes
RegisterCallUnbounded(t) ==
    /\ IF Position(types, t) # -1
       THEN /\ UNCHANGED <<types, element_sizes>>
            /\ last' = Call("register", 0, t, 0, "ok")
       ELSE /\ element_sizes' = [i \in DOMAIN element_sizes |->
                                    IF i = Len(types) THEN SizeOf(t)
                                    ELSE element_sizes[i]]
            /\ types' = Append(types, t)
            /\ last' = Call("register", 0, t, 0, "ok")
    /\ visits' = <<>>
    /\ calls' = calls + 1
    /\ UNCHANGED <<blocks, block_masks, lookup, debug>>

\* GearDataManager::register::<T>().  The three debug assertions hold for
\* every type of the model (no destructor, size <= 65535, len <= 64); the
\* write to element_sizes[len] is bounds-checked.
RegisterCall(t) ==
    /\ IF Position(types, t) # -1
       THEN /\ UNCHANGED <<types, element_sizes>>
            /\ last' = Call("register", 0, t, 0, "ok")
       ELSE IF Len(types) >= MaxTypeCount
       THEN /\ UNCHANGED <<types, element_sizes>>
            /\ last' = Call("register", 0, t, 0, "panic")
       ELSE /\ element_sizes' = [element_sizes EXCEPT ![Len(types)] = SizeOf(t)]
            /\ types' = Append(types, t)
            /\ last' = Call("register", 0, t, 0, "ok")
    /\ visits' = <<>>
    /\ calls' = calls + 1
    /\ UNCHANGED <<blocks, block_masks, lookup, debug>>

RegisterIn(universe) == \E t \in universe : Running /\ RegisterCall(t)

Register == RegisterIn(TypeIds)

(***************************************************************************)
(* Block-level operations                                                  *)
(***************************************************************************)
\* a u16 product used as a byte offset overflows: a debug build panics, a
\* release build wraps and the raw pointer leaves the slot it was meant for
Overflow16(a, b) == a * b >= U16

\* how a call ends when a u16 product overflows
OverflowStatus(dbg) == IF dbg THEN "panic" ELSE "ub"

\* the column loop copying the last occupied source slot, not the source
\* slot, to the destination
RECURSIVE MoveColumnsFromLast(_, _, _, _, _, _, _, _, _)
MoveColumnsFromLast(m, i, src, src_index, src_count, dest, dest_index, src_mask, dbg) ==
    IF i >= Len(m.types) THEN m
    ELSE IF i \notin src_mask
    THEN MoveColumnsFromLast(m, i + 1, src, src_index, src_count, dest,
                             dest_index, src_mask, dbg)
    ELSE IF i \notin DOMAIN m.blocks[dest + 1].component_blocks
    THEN [m EXCEPT !.status = "panic"]
    ELSE LET b1 == [m.blocks EXCEPT
                       ![dest + 1].columns[i][dest_index] =
                           m.blocks[src + 1].columns[i][src_count - 1]]
             b2 == IF src_index < src_count - 1
                   THEN [b1 EXCEPT ![src + 1].columns[i][src_index] =
                                       b1[src + 1].columns[i][src_count - 1]]
                   ELSE b1
         IN  MoveColumnsFromLast([m EXCEPT !.blocks = b2], i + 1, src, src_index,
                                 src_count, dest, dest_index, src_mask, dbg)

\* the column loop of move_between_blocks, from type index i on.  For each
\* type of src_mask: the value at the source slot is copied to the
\* destination slot, then the last occupied source slot is copied over the
\* source slot.  unwrap() of a column the destination does not have panics
\* and leaves the copies made so far.
RECURSIVE MoveColumns(_, _, _, _, _, _, _, _, _)
MoveColumns(m, i, src, src_index, src_count, dest, dest_index, src_mask, dbg) ==
    IF i >= Len(m.types) THEN m
    ELSE IF i \notin src_mask
    THEN MoveColumns(m, i + 1, src, src_index, src_count, dest, dest_index,
                     src_mask, dbg)
    ELSE IF i \notin DOMAIN m.blocks[dest + 1].component_blocks
    THEN [m EXCEPT !.status = "panic"]
    ELSE IF \/ Overflow16(src_index, m.element_sizes[i])
            \/ Overflow16(dest_index, m.element_sizes[i])
            \/ (src_index < src_count - 1
                  /\ Overflow16(m.element_sizes[i], src_count - 1))
    THEN [m EXCEPT !.status = OverflowStatus(dbg)]
    ELSE LET b1 == [m.blocks EXCEPT
                       ![dest + 1].columns[i][dest_index] =
                           m.blocks[src + 1].columns[i][src_index]]
             b2 == IF src_index < src_count - 1
                   THEN [b1 EXCEPT ![src + 1].columns[i][src_index] =
                                       b1[src + 1].columns[i][src_count - 1]]
                   ELSE b1
         IN  MoveColumns([m EXCEPT !.blocks = b2], i + 1, src, src_index,
                         src_count, dest, dest_index, src_mask, dbg)

\* GearDataManager::move_between_blocks
MoveBetweenBlocks(m, src_block_index, src_index, dest_block_index, dbg) ==
    LET src_mask == m.block_masks[src_block_index + 1]
        dest_mask == m.block_masks[dest_block_index + 1]
        src_block == m.blocks[src_block_index + 1]
        dest_block == m.blocks[dest_block_index + 1]
        src_count == src_block.elements_count
        dest_index == dest_block.elements_count
    IN  IF dbg /\ ~( /\ src_block_index # dest_block_index
                     /\ src_mask \subseteq dest_mask
                     /\ src_index < src_count
                     /\ ~IsFull(dest_block) )
        THEN [m EXCEPT !.status = "panic"]
        ELSE IF src_index >= src_count \/ IsFull(dest_block)
        THEN [m EXCEPT !.status = "ub"]   \* out-of-range raw pointer access
        ELSE
        LET m1 == MoveColumns(m, 0, src_block_index, src_index, src_count,
                              dest_block_index, dest_index, src_mask, dbg)
            gear_id == m1.blocks[src_block_index + 1].gear_ids[src_index]
            relocated_index == src_count - 1
            relocated_id == m1.blocks[src_block_index + 1].gear_ids[relocated_index]
            \* source side: swap-removal of the identifier
            b1 == IF src_index < src_count - 1
                  THEN [m1.blocks EXCEPT
                           ![src_block_index + 1].gear_ids[src_index] = relocated_id]
                  ELSE m1.blocks
            l1 == IF src_index < src_count - 1
                  THEN [m1.lookup EXCEPT
                           ![relocated_id] = LookupNew(src_block_index, src_index)]
                  ELSE m1.lookup
            b2 == [b1 EXCEPT ![src_block_index + 1].elements_count = @ - 1]
            \* destination side: append
            dest_index2 == b2[dest_block_index + 1].elements_count
            b3 == [b2 EXCEPT ![dest_block_index + 1].gear_ids[dest_index2] = gear_id,
                             ![dest_block_index + 1].elements_count = @ + 1]
            l2 == [l1 EXCEPT ![gear_id] = LookupNew(dest_block_index, dest_index2)]
        IN  IF m1.status # "ok" THEN m1
            ELSE [m1 EXCEPT !.blocks = b3, !.lookup = l2]

\* GearDataManager::add_to_block: the value is written through
\* component_blocks[0], whatever the type
AddToBlock(m, gear_id, block_index, value, dbg) ==
    LET block == m.blocks[block_index + 1]
        index == block.elements_count
    IN  IF dbg /\ ~( /\ Cardinality(m.block_masks[block_index + 1]) = 1
                     /\ block.elements_count < block.max_elements )
        THEN [m EXCEPT !.status = "panic"]
        ELSE IF 0 \notin DOMAIN block.component_blocks
        THEN [m EXCEPT !.status = "panic"]
        ELSE IF index >= block.max_elements
        THEN [m EXCEPT !.status = "ub"]   \* get_unchecked_mut out of range
        ELSE [m EXCEPT !.blocks[block_index + 1].columns[0][index] = value,
                       !.lookup[gear_id] = LookupNew(block_index, index),
                       !.blocks[block_index + 1].gear_ids[index] = gear_id,
                       !.blocks[block_index + 1].elements_count = @ + 1]

\* remove_from_block without the Location Index update of the entity that
\* is moved into the vacated slot
RemoveFromBlockNoRelocate(m, block_index, index, dbg) ==
    LET block == m.blocks[block_index + 1]
        count == block.elements_count
        gear_id == block.gear_ids[index]
    IN  IF index >= count
        THEN [m EXCEPT !.status = IF dbg THEN "panic" ELSE "ub"]
        ELSE [m EXCEPT
                !.blocks[block_index + 1].columns =
                    [i \in DOMAIN block.columns |->
                        [block.columns[i] EXCEPT ![index] =
                            block.columns[i][count - 1]]],
                !.blocks[block_index + 1].gear_ids[index] =
                    block.gear_ids[count - 1],
                !.blocks[block_index + 1].elements_count = @ - 1,
                !.lookup[gear_id] = LookupDefault]

\* remove_from_block that moves the identifier of the last slot without
\* the column values of that slot
RemoveFromBlockIdsOnly(m, block_index, index, dbg) ==
    LET block == m.blocks[block_index + 1]
        count == block.elements_count
        gear_id == block.gear_ids[index]
        relocated_id == block.gear_ids[count - 1]
    IN  IF index >= count
        THEN [m EXCEPT !.status = IF dbg THEN "panic" ELSE "ub"]
        ELSE IF index < count - 1
        THEN [m EXCEPT
                !.blocks[block_index + 1].gear_ids[index] = relocated_id,
                !.blocks[block_index + 1].elements_count = @ - 1,
                !.lookup = [[m.lookup EXCEPT ![gear_id] = LookupDefault]
                               EXCEPT ![relocated_id] = LookupNew(block_index, index)]]
        ELSE [m EXCEPT
                !.blocks[block_index + 1].elements_count = @ - 1,
                !.lookup[gear_id] = LookupDefault]

\* GearDataManager::remove_from_block: swap-removal of slot index
RemoveFromBlock(m, block_index, index, dbg) ==
    LET block == m.blocks[block_index + 1]
        count == block.elements_count
        relocated_index == count - 1
        gear_id == block.gear_ids[index]
        relocated_id == block.gear_ids[relocated_index]
    IN  IF dbg /\ ~(index < count)
        THEN [m EXCEPT !.status = "panic"]
        ELSE IF index >= count
        THEN [m EXCEPT !.status = "ub"]
        ELSE IF /\ index < count - 1
                /\ \E i \in DOMAIN block.columns :
                      Overflow16(m.element_sizes[i], count - 1)
        THEN [m EXCEPT !.status = OverflowStatus(dbg)]
        ELSE IF index < count - 1
        THEN [m EXCEPT
                !.blocks[block_index + 1].columns =
                    [i \in DOMAIN block.columns |->
                        [block.columns[i] EXCEPT ![index] =
                            block.columns[i][relocated_index]]],
                !.blocks[block_index + 1].gear_ids[index] = relocated_id,
                !.blocks[block_index + 1].elements_count = @ - 1,
                !.lookup = [[m.lookup EXCEPT ![gear_id] = LookupDefault]
                               EXCEPT ![relocated_id] = LookupNew(block_index, index)]]
        ELSE [m EXCEPT
                !.blocks[block_index + 1].elements_count = @ - 1,
                !.lookup[gear_id] = LookupDefault]

(***************************************************************************)
(* Public operations as functions of the store                             *)
(***************************************************************************)
\* remove_all that takes the stored NonZeroU16 for the slot index
RemoveAllOpOffByOne(m, gear_id, dbg) ==
    LET entry == m.lookup[gear_id]
    IN  IF entry.index # 0
        THEN RemoveFromBlock(m, entry.block_index, entry.index, dbg)
        ELSE m

\* GearDataManager::remove_all
RemoveAllOp(m, gear_id, dbg) ==
    LET entry == m.lookup[gear_id]
    IN  IF entry.index # 0
        THEN RemoveFromBlock(m, entry.block_index, entry.index - 1, dbg)
        ELSE m

\* add that stores the supplied value whenever the entity ends up carrying
\* the type: an update on re-attach, a write after the move otherwise
AddOpUpdate(m, gear_id, t, value, dbg) ==
    LET type_index == Position(m.types, t)
        entry == m.lookup[gear_id]
        WriteValue(n) == IF n.status = "ok"
                    THEN [n EXCEPT !.blocks[n.lookup[gear_id].block_index + 1]
                                      .columns[type_index]
                                      [n.lookup[gear_id].index - 1] = value]
                    ELSE n
    IN  IF type_index = -1 THEN [m EXCEPT !.status = "panic"]
        ELSE IF entry.index # 0
        THEN LET mask == m.block_masks[entry.block_index + 1]
                 new_mask == mask \cup {type_index}
             IN  IF new_mask # mask
                 THEN LET e == EnsureBlock(m, new_mask, dbg)
                      IN  IF e.m.status # "ok" THEN e.m
                          ELSE WriteValue(MoveBetweenBlocks(e.m, entry.block_index,
                                                       entry.index - 1, e.index, dbg))
                 ELSE WriteValue(m)
        ELSE LET e == EnsureBlock(m, {type_index}, dbg)
             IN  IF e.m.status # "ok" THEN e.m
                 ELSE AddToBlock(e.m, gear_id, e.index, value, dbg)

\* GearDataManager::add
AddOp(m, gear_id, t, value, dbg) ==
    LET type_index == Position(m.types, t)
        entry == m.lookup[gear_id]
    IN  IF type_index = -1 THEN [m EXCEPT !.status = "panic"]
        ELSE IF entry.index # 0
        THEN LET mask == m.block_masks[entry.block_index + 1]
                 new_mask == mask \cup {type_index}
             IN  IF new_mask # mask
                 THEN LET e == EnsureBlock(m, new_mask, dbg)
                      IN  IF e.m.status # "ok" THEN e.m
                          ELSE MoveBetweenBlocks(e.m, entry.block_index,
                                                 entry.index - 1, e.index, dbg)
                 ELSE m
        ELSE LET e == EnsureBlock(m, {type_index}, dbg)
             IN  IF e.m.status # "ok" THEN e.m
                 ELSE AddToBlock(e.m, gear_id, e.index, value, dbg)

\* GearDataManager::remove
RemoveOp(m, gear_id, t, dbg) ==
    LET type_index == Position(m.types, t)
        entry == m.lookup[gear_id]
    IN  IF type_index = -1 THEN [m EXCEPT !.status = "panic"]
        ELSE IF entry.index # 0
        THEN LET dest_mask == m.block_masks[entry.block_index + 1] \ {type_index}
             IN  IF dest_mask = {}
                 THEN RemoveAllOp(m, gear_id, dbg)
                 ELSE LET e == EnsureBlock(m, dest_mask, dbg)
                      IN  IF e.m.status # "ok" THEN e.m
                          ELSE MoveBetweenBlocks(e.m, entry.block_index,
                                                 entry.index - 1, e.index, dbg)
        ELSE m

(***************************************************************************)
(* Actions: one per public operation                                       *)
(***************************************************************************)
\* the store after a call: the fields of m, and the call's record
Commit(m, call) ==
    /\ types' = m.types
    /\ element_sizes' = m.element_sizes
    /\ blocks' = m.blocks
    /\ block_masks' = m.block_masks
    /\ lookup' = m.lookup
    /\ last' = [call EXCEPT !.status = m.status]
    /\ visits' = <<>>
    /\ calls' = calls + 1
    /\ UNCHANGED debug

AddCall(id, t, v) ==
    /\ Running
    /\ Commit(AddOp(Mgr, id, t, v, debug), Call("add", id, t, v, "ok"))

Add == \E id \in Ids, t \in TypeIds, v \in Values : AddCall(id, t, v)

RemoveCall(id, t) ==
    /\ Running
    /\ Commit(RemoveOp(Mgr, id, t, debug), Call("remove", id, t, 0, "ok"))

Remove == \E id \in Ids, t \in TypeIds : RemoveCall(id, t)

RemoveAllCall(id) ==
    /\ Running
    /\ Commit(RemoveAllOp(Mgr, id, debug), Call("remove_all", id, "", 0, "ok"))

RemoveAll == \E id \in Ids : RemoveAllCall(id)

(***************************************************************************)
(* Queries                                                                 *)
(***************************************************************************)
\* the type lists of the query tuples.  The source has tuples of 1..5 types;
\* a tuple longer than the number of types names a type twice, as the
\* tuples <<t, t>> do.
MaxArity == Cardinality(TypeIds)
Queries == UNION {[1..n -> TypeIds] : n \in 1..MaxArity}

\* the resolution loop without the duplicate check
RECURSIVE ResolveQueryNoDup(_, _, _, _)
ResolveQueryNoDup(ts, q, k, r) ==
    IF k > Len(q) THEN r
    ELSE LET i == Position(ts, q[k])
         IN  IF i = -1
             THEN [r EXCEPT !.status = "panic"]
             ELSE ResolveQueryNoDup(ts, q, k + 1,
                                    [r EXCEPT !.type_indices = Append(@, i),
                                              !.selector = @ \cup {i}])

\* the resolution loop of iter_id from argument k on: every requested type
\* must be registered and must not be selected already
RECURSIVE ResolveQuery(_, _, _, _)
ResolveQuery(ts, q, k, r) ==
    IF k > Len(q) THEN r
    ELSE LET i == Position(ts, q[k])
         IN  IF i = -1 \/ i \in r.selector
             THEN [r EXCEPT !.status = "panic"]
             ELSE ResolveQuery(ts, q, k + 1,
                               [r EXCEPT !.type_indices = Append(@, i),
                                         !.selector = @ \cup {i}])

\* TypeTuple::iter called with max_elements for the count
BlockVisitsAllSlots(block, type_indices) ==
    [k \in 1..block.max_elements |->
        [id |-> block.gear_ids[k - 1],
         values |-> [a \in 1..Len(type_indices) |->
                        block.columns[type_indices[a]][k - 1]]]]

\* TypeTuple::iter on one block: one callback per slot 0..count-1, with the
\* identifier at the slot and the value of each requested column at the slot
BlockVisits(block, type_indices) ==
    [k \in 1..block.elements_count |->
        [id |-> block.gear_ids[k - 1],
         values |-> [a \in 1..Len(type_indices) |->
                        block.columns[type_indices[a]][k - 1]]]]

\* the block loop visiting the later blocks first
RECURSIVE IterBlocksReverse(_, _, _, _)
IterBlocksReverse(m, b, type_indices, selector) ==
    IF b >= Len(m.block_masks) THEN <<>>
    ELSE IterBlocksReverse(m, b + 1, type_indices, selector)
         \o (IF selector \subseteq m.block_masks[b + 1]
             THEN BlockVisits(m.blocks[b + 1], type_indices)
             ELSE <<>>)

\* the block loop of iter_id from block index b on
RECURSIVE IterBlocks(_, _, _, _)
IterBlocks(m, b, type_indices, selector) ==
    IF b >= Len(m.block_masks) THEN <<>>
    ELSE (IF selector \subseteq m.block_masks[b + 1]
          THEN BlockVisits(m.blocks[b + 1], type_indices)
          ELSE <<>>)
         \o IterBlocks(m, b + 1, type_indices, selector)

\* the callback of a write query: d.value += 1 on every requested value
Increment(v) == IF v = Uninit THEN Uninit ELSE v + 1

\* a write query that increments every column of the blocks it visits
IncrementBlocksAllColumns(m, type_indices, selector) ==
    [b \in 1..Len(m.blocks) |->
        IF selector \subseteq m.block_masks[b]
        THEN [m.blocks[b] EXCEPT !.columns =
                [i \in DOMAIN @ |->
                    [k \in DOMAIN @[i] |->
                        IF k < m.blocks[b].elements_count
                        THEN Increment(@[i][k]) ELSE @[i][k]]]]
        ELSE m.blocks[b]]

\* the store after a write query whose callback increments every value
IncrementBlocks(m, type_indices, selector) ==
    [b \in 1..Len(m.blocks) |->
        IF selector \subseteq m.block_masks[b]
        THEN [m.blocks[b] EXCEPT !.columns =
                [i \in DOMAIN @ |->
                    IF i \in selector
                    THEN [k \in DOMAIN @[i] |->
                            IF k < m.blocks[b].elements_count
                            THEN Increment(@[i][k]) ELSE @[i][k]]
                    ELSE @[i]]]
        ELSE m.blocks[b]]

\* GearDataManager::iter_id: the status of the call and the callback log
IterId(m, q) ==
    LET r == ResolveQuery(m.types, q, 1,
                          [status |-> "ok", type_indices |-> <<>>, selector |-> {}])
    IN  IF r.status # "ok"
        THEN [status |-> "panic", visits |-> <<>>, type_indices |-> <<>>, selector |-> {}]
        ELSE [status |-> "ok",
              visits |-> IterBlocks(m, 0, r.type_indices, r.selector),
              type_indices |-> r.type_indices, selector |-> r.selector]

\* iter / iter_id over a tuple of shared references
Iter ==
    \E q \in Queries :
        /\ Running
        /\ LET r == IterId(Mgr, q)
           IN  /\ visits' = r.visits
               /\ last' = [op |-> "iter", gear_id |-> 0, type |-> "", value |-> 0,
                           query |-> q, mutable |-> FALSE, status |-> r.status]
        /\ calls' = calls + 1
        /\ UNCHANGED <<types, element_sizes, blocks, block_masks, lookup, debug>>

\* iter / iter_id over a tuple of mutable references, with a callback that
\* adds 1 to every value it is given
IterMut ==
    \E q \in Queries :
        /\ Running
        /\ LET r == IterId(Mgr, q)
           IN  /\ \A k \in 1..Len(r.visits) : \A a \in 1..Len(q) :
                      r.visits[k].values[a] < ValueCap
               /\ visits' = r.visits
               /\ last' = [op |-> "iter", gear_id |-> 0, type |-> "", value |-> 0,
                           query |-> q, mutable |-> TRUE, status |-> r.status]
               /\ blocks' = IF r.status = "ok"
                            THEN IncrementBlocks(Mgr, r.type_indices, r.selector)
                            ELSE blocks
        /\ calls' = calls + 1
        /\ UNCHANGED <<types, element_sizes, block_masks, lookup, debug>>

(***************************************************************************)
(* test::single_component_iteration as a function: one type is registered, *)
(* the values 1..=5 are attached to the identifiers 1..=5, a read query    *)
(* sums them, a write query increments them and a second read query adds   *)
(* them to the running sum.                                                *)
(***************************************************************************)
TestIds == 1..5

RECURSIVE SumVisits(_, _)
SumVisits(vs, k) ==
    IF k > Len(vs) THEN 0 ELSE vs[k].values[1] + SumVisits(vs, k + 1)

RECURSIVE AddEach(_, _, _, _)
AddEach(m, t, i, dbg) ==
    IF i \notin TestIds \/ m.status # "ok" THEN m
    ELSE AddEach(AddOp(m, i, t, i, dbg), t, i + 1, dbg)

SingleComponentIteration(dbg) ==
    LET t == "Datum"
        new == [types |-> <<>>,
                element_sizes |-> [i \in 0..(MaxTypeCount - 1) |-> 0],
                blocks |-> <<>>, block_masks |-> <<>>,
                lookup |-> [id \in TestIds |-> LookupDefault],
                status |-> "ok"]
        registered == [new EXCEPT !.types = Append(@, t),
                                  !.element_sizes[0] = SizeOf(t)]
        added == AddEach(registered, t, 1, dbg)
        first == IterId(added, <<t>>)
        write == IterId(added, <<t>>)
        written == [added EXCEPT !.blocks =
                       IncrementBlocks(added, write.type_indices, write.selector)]
        second == IterId(written, <<t>>)
        sum1 == SumVisits(first.visits, 1)
    IN  [status |-> IF added.status # "ok" THEN added.status
                    ELSE IF first.status # "ok" THEN first.status
                    ELSE second.status,
         first_sum |-> sum1,
         total |-> sum1 + SumVisits(second.visits, 1),
         unchanged |-> /\ written.lookup = added.lookup
                       /\ written.block_masks = added.block_masks
                       /\ Len(written.blocks) = Len(added.blocks)
                       /\ \A b \in 1..Len(added.blocks) :
                             /\ written.blocks[b].gear_ids = added.blocks[b].gear_ids
                             /\ written.blocks[b].elements_count =
                                   added.blocks[b].elements_count]

\* the outcome of the test in a debug and in a release build
TestOutcomes == <<SingleComponentIteration(TRUE), SingleComponentIteration(FALSE)>>

Next ==
    \/ Register
    \/ Add
    \/ Remove
    \/ RemoveAll
    \/ Iter
    \/ IterMut

Spec == Init /\ [][Next]_vars

(***************************************************************************)
(* Layout specification: types of any legal size are registered and        *)
(* blocks are created for any mask over the registered types, as           *)
(* ensure_block creates them.                                              *)
(***************************************************************************)
RegisterLayout == RegisterIn(LayoutTypeIds)

NewBlock ==
    \E mask \in (SUBSET (0..(Len(types) - 1))) \ {{}} :
        /\ Running
        /\ Len(blocks) < MaxLayoutBlocks
        /\ Commit(EnsureBlock(Mgr, mask, debug).m,
                  Call("ensure_block", 0, "", 0, "ok"))

NextLayout ==
    \/ RegisterLayout
    \/ NewBlock

SpecLayout == Init /\ [][NextLayout]_vars

(***************************************************************************)
(* Registry specification: one store on which register is called until     *)
(* the registry is full and beyond, with a type not yet registered or with *)
(* the first or the last registered type again.                            *)
(***************************************************************************)
RegistryRunning == last.status = "ok" /\ calls < MaxRegistryCalls

RegisterNew ==
    /\ RegistryRunning
    /\ Len(types) < RegistryTypeCount
    /\ RegisterCall(RegistryType(Len(types) + 1))

RegisterAgain ==
    \E k \in {1, Len(types)} :
        /\ RegistryRunning
        /\ k \in 1..Len(types)
        /\ RegisterCall(types[k])

NextRegistry ==
    \/ RegisterNew
    \/ RegisterAgain

SpecRegistry == Init /\ [][NextRegistry]_vars

(***************************************************************************)
(* Views of the store used by the properties                               *)
(***************************************************************************)
Located(id) == lookup[id].index # 0
BlockOf(id) == lookup[id].block_index
SlotOf(id) == lookup[id].index - 1
\* the record set of a located entity, as type indices
MaskOf(id) == block_masks[BlockOf(id) + 1]
\* the value stored for type index i of a located entity
ValueOf(id, i) == blocks[BlockOf(id) + 1].columns[i][SlotOf(id)]
\* the slots (block, k) that hold identifier id
SlotsOf(id) ==
    {bk \in UNION {{<<b, k>> : k \in 0..(blocks[b + 1].elements_count - 1)} :
                       b \in 0..(Len(blocks) - 1)} :
        blocks[bk[1] + 1].gear_ids[bk[2]] = id}
Store == <<types, element_sizes, blocks, block_masks, lookup>>
\* the step is a call of op on id with type t
StepIs(op, id, t) ==
    /\ calls' = calls + 1
    /\ last'.op = op /\ last'.gear_id = id /\ last'.type = t

(***************************************************************************)
(* C1: after any sequence of register, add, remove and remove_all calls    *)
(* the Location Index and the blocks are in bijection: a non-empty entry   *)
(* points at an occupied slot holding its identifier, every occupied slot  *)
(* holds an identifier whose entry is that slot, and no identifier is in   *)
(* two slots.                                                              *)
(***************************************************************************)
C1_Bijection ==
    /\ \A id \in Ids :
          Located(id) =>
             /\ BlockOf(id) < Len(blocks)
             /\ SlotOf(id) < blocks[BlockOf(id) + 1].elements_count
             /\ blocks[BlockOf(id) + 1].gear_ids[SlotOf(id)] = id
    /\ \A b \in 0..(Len(blocks) - 1) :
          \A k \in 0..(blocks[b + 1].elements_count - 1) :
             /\ blocks[b + 1].gear_ids[k] \in Ids
             /\ lookup[blocks[b + 1].gear_ids[k]] = LookupNew(b, k)
    /\ \A id \in Ids : Cardinality(SlotsOf(id)) <= 1

\* remove<T> has just removed an entity whose only type was T from a slot
\* that was not the last one of its block, and the entity of the last slot
\* took its place
C1_Witness ==
    /\ last.op = "remove" /\ last.status = "ok"
    /\ ~Located(last.gear_id)
    /\ \E id \in Ids :
          /\ Located(id)
          /\ SlotOf(id) = 0
          /\ blocks[BlockOf(id) + 1].elements_count = 1
          /\ blocks[BlockOf(id) + 1].max_elements >= 2
          /\ blocks[BlockOf(id) + 1].gear_ids[1] = id

\* the callback log of a query in the current store
QueryVisits(q) == IterId(Mgr, q).visits
QueryOk(q) == IterId(Mgr, q).status = "ok"
\* the positions of the log of q at which identifier id is visited
VisitsTo(q, id) == {k \in 1..Len(QueryVisits(q)) : QueryVisits(q)[k].id = id}
\* the type indices a query names (-1 for an unregistered type)
QueryIndices(q) == {Position(types, q[a]) : a \in 1..Len(q)}
\* a query of registered, pairwise distinct types
QueryLegal(q) ==
    /\ -1 \notin QueryIndices(q)
    /\ Cardinality(QueryIndices(q)) = Len(q)

(***************************************************************************)
(* C2: remove<T>(id) on an entity that carries T and another type          *)
(* completes and leaves the entity in a block whose mask is the old mask   *)
(* without T, with the values of the remaining types preserved; a query    *)
(* that requests T no longer visits it and a query over remaining types    *)
(* visits it with the original values.                                     *)
(***************************************************************************)
C2_DetachRelocates ==
    [][\A id \in Ids, t \in TypeIds :
          LET ti == Position(types, t)
          IN  ( /\ StepIs("remove", id, t)
                /\ Located(id)
                /\ ti \in MaskOf(id)
                /\ MaskOf(id) # {ti} )
              => /\ last'.status = "ok"
                 /\ Located(id)'
                 /\ MaskOf(id)' = MaskOf(id) \ {ti}
                 /\ \A i \in MaskOf(id) \ {ti} : ValueOf(id, i)' = ValueOf(id, i)
                 /\ \A q \in Queries :
                       QueryLegal(q) =>
                          /\ ti \in QueryIndices(q) => VisitsTo(q, id)' = {}
                          /\ QueryIndices(q) \subseteq MaskOf(id) \ {ti} =>
                                \E k \in VisitsTo(q, id)' :
                                   \A a \in 1..Len(q) :
                                      QueryVisits(q)'[k].values[a] =
                                         ValueOf(id, Position(types, q[a]))
    ]_vars

(***************************************************************************)
(* C3: for every registered type T and every identifier without a          *)
(* location, add<T>(id, value) completes, places id in a block whose mask  *)
(* is T's single bit and stores value in T's column at id's slot, so that  *)
(* a query over (T,) visits id with the supplied value.                    *)
(***************************************************************************)
C3_FreshAttachStores ==
    [][\A id \in Ids, t \in TypeIds :
          LET ti == Position(types, t)
          IN  ( /\ StepIs("add", id, t)
                /\ ti # -1
                /\ ~Located(id) )
              => /\ last'.status = "ok"
                 /\ Located(id)'
                 /\ MaskOf(id)' = {ti}
                 /\ ValueOf(id, ti)' = last'.value
                 /\ \E k \in VisitsTo(<<t>>, id)' :
                       QueryVisits(<<t>>)'[k].values = <<last'.value>>
    ]_vars

(***************************************************************************)
(* C4: remove_all(id) never fails; when id has a location, afterwards its  *)
(* entry is empty, it occupies no slot and no query visits it; when id has *)
(* no location the store is unchanged.  remove<T>(id) on an entity whose   *)
(* only type is T has the same effect as remove_all(id).                   *)
(***************************************************************************)
C4_RemoveAll ==
    [][\A id \in Ids :
          /\ StepIs("remove_all", id, "") =>
                /\ last'.status = "ok"
                /\ ~Located(id)'
                /\ SlotsOf(id)' = {}
                /\ \A q \in Queries : VisitsTo(q, id)' = {}
                /\ ~Located(id) => UNCHANGED Store
          /\ \A t \in TypeIds :
                ( /\ StepIs("remove", id, t)
                  /\ Position(types, t) # -1
                  /\ Located(id)
                  /\ MaskOf(id) = {Position(types, t)} )
                => LET m == RemoveAllOp(Mgr, id, debug)
                   IN  /\ last'.status = "ok"
                       /\ m.status = "ok"
                       /\ Store' = <<m.types, m.element_sizes, m.blocks,
                                     m.block_masks, m.lookup>>
                       /\ ~Located(id)'
                       /\ SlotsOf(id)' = {}
    ]_vars

\* remove_all has just removed an entity from a slot that was not the last
\* one of its block, so that another entity took the slot
C4_Witness ==
    /\ last.op = "remove_all" /\ last.status = "ok"
    /\ ~Located(last.gear_id)
    /\ \E b \in 1..Len(blocks) :
          /\ blocks[b].elements_count >= 1
          /\ blocks[b].elements_count < blocks[b].max_elements
          /\ blocks[b].gear_ids[blocks[b].elements_count] = blocks[b].gear_ids[0]
          /\ blocks[b].gear_ids[0] # last.gear_id

(***************************************************************************)
(* C5: add<T>(id, value) on an entity whose mask already includes T        *)
(* changes nothing: no block is created, no block content and no Location  *)
(* Index entry changes, and the stored value of T stays what it was.       *)
(***************************************************************************)
C5_ReattachNoChange ==
    [][\A id \in Ids, t \in TypeIds :
          ( /\ StepIs("add", id, t)
            /\ Located(id)
            /\ Position(types, t) \in MaskOf(id) )
          => /\ last'.status = "ok"
             /\ UNCHANGED Store
             /\ ValueOf(id, Position(types, t))' = ValueOf(id, Position(types, t))
    ]_vars

\* the last add named a type the entity already carried, with a value other
\* than the stored one
C5_Witness ==
    /\ last.op = "add" /\ last.status = "ok"
    /\ Located(last.gear_id)
    /\ MaskOf(last.gear_id) = {Position(types, last.type)}
    /\ ValueOf(last.gear_id, Position(types, last.type)) \in Values \ {last.value}

(***************************************************************************)
(* C6: add<T>(id, value) on a located entity that does not carry T moves   *)
(* it to a newly appended slot of a block whose mask is the old mask plus  *)
(* T; the values of the types it carried are the same in the new slot; the *)
(* old slot is freed by swap-removal; value is not written to T's column.  *)
(***************************************************************************)
C6_AttachMoves ==
    [][\A id \in Ids, t \in TypeIds :
          LET ti == Position(types, t)
              b0 == BlockOf(id)
              s0 == SlotOf(id)
              n0 == blocks[b0 + 1].elements_count
              b1 == BlockOf(id)'
              s1 == SlotOf(id)'
          IN  ( /\ StepIs("add", id, t)
                /\ ti # -1
                /\ Located(id)
                /\ ti \notin MaskOf(id) )
              => /\ last'.status = "ok"
                 /\ Located(id)'
                 /\ b1 # b0
                 /\ MaskOf(id)' = MaskOf(id) \cup {ti}
                 \* newly appended slot
                 /\ s1 = (IF b1 < Len(blocks) THEN blocks[b1 + 1].elements_count ELSE 0)
                 /\ blocks'[b1 + 1].elements_count = s1 + 1
                 /\ blocks'[b1 + 1].gear_ids[s1] = id
                 \* values carried over
                 /\ \A i \in MaskOf(id) : ValueOf(id, i)' = ValueOf(id, i)
                 \* swap-removal of the old slot
                 /\ blocks'[b0 + 1].elements_count = n0 - 1
                 /\ s0 < n0 - 1 =>
                       LET r == blocks[b0 + 1].gear_ids[n0 - 1]
                       IN  /\ blocks'[b0 + 1].gear_ids[s0] = r
                           /\ lookup'[r] = LookupNew(b0, s0)
                           /\ \A i \in MaskOf(id) :
                                 blocks'[b0 + 1].columns[i][s0] =
                                    blocks[b0 + 1].columns[i][n0 - 1]
                 \* T's column at the new slot is what it was
                 /\ blocks'[b1 + 1].columns[ti][s1] =
                       (IF b1 < Len(blocks) THEN blocks[b1 + 1].columns[ti][s1]
                        ELSE Uninit)
    ]_vars

\* the last add moved an entity into a two-type block and the entity that
\* was last in the old block took its slot
C6_Witness ==
    /\ last.op = "add" /\ last.status = "ok"
    /\ Located(last.gear_id)
    /\ Cardinality(MaskOf(last.gear_id)) = 2
    /\ Position(types, last.type) = 1
    /\ ValueOf(last.gear_id, 0) \in Values
    /\ ValueOf(last.gear_id, 1) # last.value
    /\ \E b \in 1..Len(blocks) :
          /\ blocks[b].elements_count = 1
          /\ blocks[b].max_elements >= 2
          /\ blocks[b].gear_ids[1] = blocks[b].gear_ids[0]

(***************************************************************************)
(* C7: in any reachable store state a query of registered, pairwise        *)
(* distinct types invokes the callback exactly once for every entity whose *)
(* record set includes the requested types and for no other entity, with   *)
(* the value stored for that entity for each requested type; the set of    *)
(* (identifier, per-type value) visits is the same for every order of the  *)
(* requested types.                                                        *)
(***************************************************************************)
\* the types a query names
Range(q) == {q[a] : a \in 1..Len(q)}

\* the visits of the log vs of query q, each as identifier and type -> value
VisitSet(q, vs) ==
    {[id |-> vs[k].id,
      values |-> [t \in Range(q) |->
                    vs[k].values[CHOOSE a \in 1..Len(q) : q[a] = t]]] :
        k \in 1..Len(vs)}

\* the log vs is what query q must produce in the current store
VisitsExact(q, vs) ==
    /\ \A k \in 1..Len(vs) :
          /\ vs[k].id \in Ids
          /\ Located(vs[k].id)
          /\ \A a \in 1..Len(q) :
                /\ Position(types, q[a]) \in MaskOf(vs[k].id)
                /\ vs[k].values[a] = ValueOf(vs[k].id, Position(types, q[a]))
    /\ \A id \in Ids :
          Cardinality({k \in 1..Len(vs) : vs[k].id = id}) =
             (IF Located(id) /\ QueryIndices(q) \subseteq MaskOf(id) THEN 1 ELSE 0)

C7_QueryExact ==
    LET legal == {q \in Queries : QueryLegal(q)}
        log == [q \in legal |-> IterId(Mgr, q)]
    IN  /\ \A q \in legal :
              log[q].status = "ok" /\ VisitsExact(q, log[q].visits)
        /\ \A q1 \in legal :
              Len(q1) >= 2 =>
                 \A q2 \in legal :
                    (q1 # q2 /\ Range(q1) = Range(q2))
                    => VisitSet(q1, log[q1].visits) = VisitSet(q2, log[q2].visits)
        /\ (last.op = "iter" /\ last.status = "ok" /\ ~last.mutable)
              => VisitsExact(last.query, visits)

\* a two-type read query has just visited an entity that carries both types
C7_Witness ==
    /\ last.op = "iter" /\ last.status = "ok" /\ ~last.mutable
    /\ Len(last.query) = 2
    /\ Len(visits) >= 1
    /\ visits[1].values[1] \in Values \/ visits[1].values[2] \in Values

(***************************************************************************)
(* C8: every block has elements_count <= max_elements; when add needs a    *)
(* slot for a mask and every existing block with that mask is full, a      *)
(* further block with the same mask is allocated, and a query over a type  *)
(* visits every entity that carries it exactly once across all blocks.     *)
(***************************************************************************)
\* the mask add<t>(id) needs a slot for, {} when it needs none
NeededMask(id, t) ==
    LET ti == Position(types, t)
    IN  IF ti = -1 THEN {}
        ELSE IF ~Located(id) THEN {ti}
        ELSE IF ti \in MaskOf(id) THEN {}
        ELSE MaskOf(id) \cup {ti}

BlocksWithMask(mask) == {b \in 1..Len(blocks) : block_masks[b] = mask}

C8_Occupancy ==
    /\ \A b \in 1..Len(blocks) :
          blocks[b].elements_count <= blocks[b].max_elements
    /\ \A t \in TypeIds :
          Position(types, t) # -1 =>
             \A id \in Ids :
                Cardinality(VisitsTo(<<t>>, id)) =
                   (IF Located(id) /\ Position(types, t) \in MaskOf(id) THEN 1 ELSE 0)

C8_Overflow ==
    /\ []C8_Occupancy
    /\ [][\A id \in Ids, t \in TypeIds :
             LET mask == NeededMask(id, t)
             IN  ( /\ StepIs("add", id, t)
                   /\ mask # {}
                   /\ BlocksWithMask(mask) # {}
                   /\ \A b \in BlocksWithMask(mask) : IsFull(blocks[b]) )
                 => /\ Len(blocks') = Len(blocks) + 1
                    /\ Len(block_masks') = Len(blocks')
                    /\ block_masks'[Len(blocks')] = mask
                    /\ \A b \in 1..Len(blocks) : block_masks'[b] = block_masks[b]
                    /\ last'.status = "ok"
                    /\ BlockOf(id)' = Len(blocks)
       ]_vars

\* the last add found the only block of its mask full and put the entity
\* into a second block with the same mask
C8_Witness ==
    /\ last.op = "add" /\ last.status = "ok"
    /\ Located(last.gear_id)
    /\ BlockOf(last.gear_id) >= 1
    /\ SlotOf(last.gear_id) = 0
    /\ \E b \in 1..Len(blocks) :
          /\ b - 1 < BlockOf(last.gear_id)
          /\ block_masks[b] = MaskOf(last.gear_id)
          /\ IsFull(blocks[b])
          /\ blocks[b].elements_count >= 1

(***************************************************************************)
(* C9: a block created with mask m over registered types of sizes s_i      *)
(* (each <= 65535) has max_elements = floor(32768 / (sum of s_i + 2)),     *)
(* the sum taken without 16-bit wrap-around, and max_elements >= 1.        *)
(***************************************************************************)
C9_MaxElements ==
    \A b \in 1..Len(blocks) :
        LET sizes == [k \in 1..Len(types) |-> element_sizes[k - 1]]
        IN  /\ blocks[b].max_elements =
                  BLOCK_SIZE \div (SumSizes(sizes, block_masks[b]) + GearIdSize)
            /\ blocks[b].max_elements >= 1

(***************************************************************************)
(* C10: add<T> or remove<T> of a type that was never registered, and an    *)
(* iter whose query names an unregistered type or the same type twice,     *)
(* panics and leaves the registry, the blocks and the Location Index as    *)
(* they were; a failing iter never invokes the callback.                   *)
(***************************************************************************)
C10_FailingCalls ==
    [][ /\ \A id \in Ids, t \in TypeIds :
              ( /\ StepIs("add", id, t) \/ StepIs("remove", id, t)
                /\ Position(types, t) = -1 )
              => last'.status = "panic" /\ UNCHANGED Store
        /\ ( /\ StepIs("iter", 0, "")
             /\ ~QueryLegal(last'.query) )
           => /\ last'.status = "panic"
              /\ UNCHANGED Store
              /\ visits' = <<>>
    ]_vars

\* an iter that named twice a type some entity carries has panicked
C10_Witness ==
    /\ last.op = "iter" /\ last.status = "panic"
    /\ Len(last.query) = 2
    /\ -1 \notin QueryIndices(last.query)
    /\ \E id \in Ids : Located(id) /\ QueryIndices(last.query) \subseteq MaskOf(id)
    /\ visits = <<>>

(***************************************************************************)
(* C11: register<T>() is idempotent and indices are stable: registering an *)
(* already registered type leaves the type list and the recorded sizes     *)
(* unchanged; registering a new type appends it with index equal to the    *)
(* number of types registered before and records its byte size; the index  *)
(* and size of a registered type never change under any later operation.   *)
(***************************************************************************)
C11_RegisterStable ==
    [][ /\ \A k \in 1..Len(types) :
              /\ k <= Len(types')
              /\ types'[k] = types[k]
              /\ Position(types', types[k]) = Position(types, types[k])
              /\ Position(types, types[k]) = k - 1
              /\ element_sizes'[k - 1] = element_sizes[k - 1]
              /\ element_sizes[k - 1] = SizeOf(types[k])
        /\ \A t \in TypeIds :
              StepIs("register", 0, t) =>
                 IF Position(types, t) # -1
                 THEN /\ last'.status = "ok"
                      /\ UNCHANGED <<types, element_sizes>>
                 ELSE /\ last'.status = "ok"
                      /\ types' = Append(types, t)
                      /\ Position(types', t) = Len(types)
                      /\ element_sizes'[Len(types)] = SizeOf(t)
      ]_vars

\* the first registered type has just been registered again, after a second
\* type was registered and while an entity is stored
C11_Witness ==
    /\ last.op = "register" /\ last.status = "ok"
    /\ Len(types) = 2
    /\ last.type = types[1]
    /\ element_sizes[0] = SizeOf(types[1])
    /\ element_sizes[1] = SizeOf(types[2])
    /\ \E id \in Ids : Located(id)

(***************************************************************************)
(* C12: the number of registered types never exceeds 64: register<T>() of  *)
(* a type not yet registered, called when 64 types are registered, fails   *)
(* and leaves the type list and the recorded sizes unchanged, while        *)
(* registering the 64th distinct type succeeds with index 63.              *)
(***************************************************************************)
C12_RegistryLimit ==
    /\ [](Len(types) <= MaxTypeCount)
    /\ [][\A k \in 1..RegistryTypeCount :
             LET t == RegistryType(k)
             IN  (StepIs("register", 0, t) /\ Position(types, t) = -1) =>
                    /\ Len(types) = MaxTypeCount =>
                          /\ last'.status = "panic"
                          /\ UNCHANGED <<types, element_sizes>>
                    /\ Len(types) = MaxTypeCount - 1 =>
                          /\ last'.status = "ok"
                          /\ Len(types') = MaxTypeCount
                          /\ Position(types', t) = MaxTypeCount - 1
                          /\ element_sizes'[MaxTypeCount - 1] = SizeOf(t)
       ]_vars

\* register of a 65th type has just failed on a full registry
C12_Witness ==
    /\ last.op = "register" /\ last.status = "panic"
    /\ Len(types) = MaxTypeCount
    /\ Position(types, last.type) = -1
    /\ Position(types, RegistryType(MaxTypeCount)) = MaxTypeCount - 1

(***************************************************************************)
(* C13: a write query changes only the column values it is given: after a  *)
(* write query whose callback adds 1 to each value, a read query over each *)
(* of its types visits the same entities in the same order, each entity    *)
(* the write query visited with a value 1 greater than before (a value     *)
(* that was never written stays indeterminate), and no Location Index      *)
(* entry, identifier array, elements_count, mask or block list has         *)
(* changed; no value of a column or slot the query was not given has       *)
(* changed.  For the values 1..=5 the first read pass sums to 15 and the   *)
(* running total after the second read pass is 35.                         *)
(***************************************************************************)
C13_WriteQuery ==
    [][ /\ \A k \in 1..Len(TestOutcomes) :
              /\ TestOutcomes[k].status = "ok"
              /\ TestOutcomes[k].first_sum = 15
              /\ TestOutcomes[k].total = 35
              /\ TestOutcomes[k].unchanged
        /\ (StepIs("iter", 0, "") /\ last'.mutable /\ last'.status = "ok") =>
              LET q == last'.query
                  sel == QueryIndices(q)
              IN  /\ UNCHANGED <<types, element_sizes, block_masks, lookup>>
                  /\ Len(blocks') = Len(blocks)
                  /\ \A b \in 1..Len(blocks) :
                        /\ blocks'[b].gear_ids = blocks[b].gear_ids
                        /\ blocks'[b].elements_count = blocks[b].elements_count
                        /\ blocks'[b].max_elements = blocks[b].max_elements
                        /\ blocks'[b].component_blocks = blocks[b].component_blocks
                        /\ DOMAIN blocks'[b].columns = DOMAIN blocks[b].columns
                        /\ \A i \in DOMAIN blocks[b].columns :
                              \A k \in 0..(blocks[b].max_elements - 1) :
                                 LET old == blocks[b].columns[i][k]
                                     given == /\ sel \subseteq block_masks[b]
                                              /\ i \in sel
                                              /\ k < blocks[b].elements_count
                                 IN  blocks'[b].columns[i][k] =
                                        (IF given /\ old # Uninit THEN old + 1 ELSE old)
                  /\ \A t \in TypeIds :
                        LET before == QueryVisits(<<t>>)
                            after == QueryVisits(<<t>>)'
                        IN  t \in Range(q) =>
                            /\ Len(after) = Len(before)
                            /\ \A n \in 1..Len(before) :
                                  /\ after[n].id = before[n].id
                                  /\ after[n].values[1] =
                                        (IF /\ sel \subseteq MaskOf(before[n].id)
                                            /\ before[n].values[1] # Uninit
                                         THEN before[n].values[1] + 1
                                         ELSE before[n].values[1])
      ]_vars

\* a write query over one type has just incremented a stored value
C13_Witness ==
    /\ last.op = "iter" /\ last.mutable /\ last.status = "ok"
    /\ Len(last.query) = 1
    /\ Len(visits) >= 1
    /\ visits[1].values[1] \in Values
    /\ Located(visits[1].id)
    /\ ValueOf(visits[1].id, Position(types, last.query[1])) = visits[1].values[1] + 1

(***************************************************************************)
(* C14: every invocation of move_between_blocks made by add or remove      *)
(* satisfies its asserted preconditions: the source and destination block  *)
(* indices differ, the destination mask is a superset of the source mask,  *)
(* the source slot is below the source block's elements_count, and the     *)
(* destination block is not full.                                          *)
(***************************************************************************)
\* what move_between_blocks asserts of its arguments
MovePreconditions(m, src_block_index, src_index, dest_block_index) ==
    /\ src_block_index # dest_block_index
    /\ m.block_masks[src_block_index + 1] \subseteq m.block_masks[dest_block_index + 1]
    /\ src_index < m.blocks[src_block_index + 1].elements_count
    /\ ~IsFull(m.blocks[dest_block_index + 1])

\* the mask add<t>(id) or remove<t>(id) passes to ensure_block before it
\* calls move_between_blocks, {} when it makes no such call
MoveMask(op, id, t) ==
    LET ti == Position(types, t)
    IN  IF ti = -1 \/ ~Located(id) THEN {}
        ELSE IF op = "add"
        THEN (IF ti \in MaskOf(id) THEN {} ELSE MaskOf(id) \cup {ti})
        ELSE MaskOf(id) \ {ti}

C14_MovePreconditions ==
    [][\A op \in {"add", "remove"}, id \in Ids, t \in TypeIds :
          LET mask == MoveMask(op, id, t)
              e == EnsureBlock(Mgr, mask, debug)
          IN  (StepIs(op, id, t) /\ mask # {} /\ e.m.status = "ok")
              => MovePreconditions(e.m, BlockOf(id), SlotOf(id), e.index)
    ]_vars

(***************************************************************************)
(* C15: columns and the identifier array stay in lock-step under           *)
(* swap-removal: an add, remove or remove_all applied to identifier id     *)
(* leaves, for every other identifier, its record set and the stored value *)
(* of each of its types unchanged; at most one other entity (the one in    *)
(* the last occupied slot of id's old block) changes slot, it moves to     *)
(* id's vacated slot, and its Location Index entry is that slot.           *)
(***************************************************************************)
C15_LockStep ==
    [][\A op \in {"add", "remove", "remove_all"}, id \in Ids, t \in TypeIds \cup {""} :
          StepIs(op, id, t) =>
             LET others == Ids \ {id}
                 movers == {o \in others : lookup'[o] # lookup[o]}
             IN  /\ \A o \in others :
                       /\ Located(o)' = Located(o)
                       /\ Located(o) =>
                             /\ BlockOf(o)' < Len(blocks')
                             /\ MaskOf(o)' = MaskOf(o)
                             /\ SlotOf(o)' < blocks'[BlockOf(o)' + 1].elements_count
                             /\ blocks'[BlockOf(o)' + 1].gear_ids[SlotOf(o)'] = o
                             /\ \A i \in MaskOf(o) : ValueOf(o, i)' = ValueOf(o, i)
                 /\ Cardinality(movers) <= 1
                 /\ \A o \in movers :
                       /\ Located(id) /\ Located(o)
                       /\ BlockOf(o) = BlockOf(id)
                       /\ SlotOf(o) = blocks[BlockOf(id) + 1].elements_count - 1
                       /\ lookup'[o] = LookupNew(BlockOf(id), SlotOf(id))
    ]_vars

\* the last call took an entity out of slot 0 of a block and the entity of
\* slot 1, which carries a stored value, took its place
C15_Witness ==
    /\ last.op \in {"add", "remove", "remove_all"} /\ last.status = "ok"
    /\ \E o \in Ids \ {last.gear_id} :
          /\ Located(o)
          /\ SlotOf(o) = 0
          /\ blocks[BlockOf(o) + 1].elements_count = 1
          /\ blocks[BlockOf(o) + 1].max_elements >= 2
          /\ blocks[BlockOf(o) + 1].gear_ids[1] = o
          /\ \E i \in MaskOf(o) :
                /\ ValueOf(o, i) \in Values
                /\ blocks[BlockOf(o) + 1].columns[i][1] = ValueOf(o, i)

(***************************************************************************)
(* C16: the block pool is append-only and masks are fixed: the number of   *)
(* blocks never decreases, the mask and max_elements of an existing block  *)
(* never change, and a new block for mask m is appended only by an add or  *)
(* remove that needs a slot for m while every existing block with exactly  *)
(* mask m is full; otherwise the first non-full block with mask m in       *)
(* creation order is used.                                                 *)
(***************************************************************************)
\* the mask add<t>(id) or remove<t>(id) passes to ensure_block, {} when it
\* does not call ensure_block
EnsureMask(op, id, t) ==
    IF op = "add" THEN NeededMask(id, t)
    ELSE IF op = "remove" THEN MoveMask(op, id, t)
    ELSE {}

NonFullWithMask(mask) == {b \in BlocksWithMask(mask) : ~IsFull(blocks[b])}

C16_AppendOnly ==
    [][ /\ Len(blocks') >= Len(blocks)
        /\ Len(block_masks') = Len(blocks')
        /\ \A b \in 1..Len(blocks) :
              /\ block_masks'[b] = block_masks[b]
              /\ blocks'[b].max_elements = blocks[b].max_elements
        /\ Len(blocks') > Len(blocks) =>
              LET mask == EnsureMask(last'.op, last'.gear_id, last'.type)
              IN  /\ Len(blocks') = Len(blocks) + 1
                  /\ calls' = calls + 1
                  /\ last'.op \in {"add", "remove"}
                  /\ mask # {}
                  /\ block_masks'[Len(blocks')] = mask
                  /\ blocks'[Len(blocks')].elements_count <= 1
                  /\ NonFullWithMask(mask) = {}
        /\ \A op \in {"add", "remove"}, id \in Ids, t \in TypeIds :
              LET mask == EnsureMask(op, id, t)
              IN  (StepIs(op, id, t) /\ mask # {} /\ NonFullWithMask(mask) # {})
                  => /\ Len(blocks') = Len(blocks)
                     /\ last'.status = "ok" =>
                           /\ Located(id)'
                           /\ BlockOf(id)' = Min(NonFullWithMask(mask)) - 1
      ]_vars

\* the last add put its entity into the first block of its mask, which had
\* a free slot again, while a later block with the same mask exists
C16_Witness ==
    /\ last.op = "add" /\ last.status = "ok"
    /\ Located(last.gear_id)
    /\ \E b \in 1..Len(blocks) :
          /\ b - 1 > BlockOf(last.gear_id)
          /\ block_masks[b] = MaskOf(last.gear_id)
          /\ \A c \in 1..(b - 1) : block_masks[c] = block_masks[b] => c - 1 >= BlockOf(last.gear_id)

(***************************************************************************)
(* C17: within one iter/iter_id call, qualifying blocks are visited in     *)
(* block-creation order and, inside each block, the callback is invoked    *)
(* for slots 0, 1, ..., elements_count-1 in increasing slot order, with    *)
(* the identifier passed to the callback being the one stored at the slot. *)
(***************************************************************************)
\* the occupied slots <<block, slot>> of the blocks whose mask covers sel
QuerySlots(sel) ==
    UNION {{<<b, k>> : k \in 0..(blocks[b + 1].elements_count - 1)} :
              b \in {c \in 0..(Len(blocks) - 1) : sel \subseteq block_masks[c + 1]}}

\* slot x comes before slot y: an earlier block, or the same block and a
\* lower slot
SlotBefore(x, y) == x[1] < y[1] \/ (x[1] = y[1] /\ x[2] < y[2])

C17_IterOrder ==
    (last.op = "iter" /\ last.status = "ok") =>
        LET slots == QuerySlots(QueryIndices(last.query))
        IN  /\ Len(visits) = Cardinality(slots)
            /\ \A s \in slots :
                  LET n == Cardinality({x \in slots : SlotBefore(x, s)}) + 1
                  IN  /\ visits[n].id = blocks[s[1] + 1].gear_ids[s[2]]
                      /\ ~last.mutable =>
                            \A a \in 1..Len(last.query) :
                               visits[n].values[a] =
                                  blocks[s[1] + 1].columns
                                     [Position(types, last.query[a])][s[2]]

\* a query has just visited two entities, the one with the higher
\* identifier first
C17_Witness ==
    /\ last.op = "iter" /\ last.status = "ok"
    /\ Len(visits) = 2
    /\ visits[1].id > visits[2].id
    /\ Cardinality(QuerySlots(QueryIndices(last.query))) = 2

(***************************************************************************)
(* C18: remove<T>(id) for a registered type T that the located entity id   *)
(* does not carry is harmless: it completes without failing, the entity's  *)
(* record set and every stored value of every entity are unchanged, and    *)
(* the Location Index / block bijection still holds.                       *)
(***************************************************************************)
C18_RemoveAbsentHarmless ==
    [][\A id \in Ids, t \in TypeIds :
          ( /\ StepIs("remove", id, t)
            /\ Position(types, t) # -1
            /\ Located(id)
            /\ Position(types, t) \notin MaskOf(id) )
          => /\ last'.status = "ok"
             /\ Located(id)'
             /\ MaskOf(id)' = MaskOf(id)
             /\ \A o \in Ids :
                   Located(o) =>
                      /\ Located(o)'
                      /\ \A i \in MaskOf(o) : ValueOf(o, i)' = ValueOf(o, i)
             /\ C1_Bijection'
    ]_vars

(***************************************************************************)
(* C19: every block's layout fits its 32768-byte budget and its regions    *)
(* are disjoint: for any mask over registered types, the identifier array  *)
(* occupies bytes [0, 2*max_elements), the columns follow in ascending     *)
(* type-index order, each of length max_elements*size_i with no overlap,   *)
(* the end of the last column is <= 32768, and every 16-bit product        *)
(* slot*size used as a byte offset is below 65536.                         *)
(***************************************************************************)
C19_LayoutFits ==
    \A b \in 1..Len(blocks) :
        LET block == blocks[b]
            present == DOMAIN block.component_blocks
            ColumnEnd(i) == block.component_blocks[i]
                               + block.max_elements * element_sizes[i]
        IN  /\ present = block_masks[b]
            /\ GearIdSize * block.max_elements <= BLOCK_SIZE
            /\ \A i \in present :
                  LET lower == {j \in present : j < i}
                  IN  /\ block.component_blocks[i] =
                            (IF lower = {} THEN GearIdSize * block.max_elements
                             ELSE ColumnEnd(CHOOSE j \in lower : \A k \in lower : k <= j))
                      /\ ColumnEnd(i) <= BLOCK_SIZE
                      /\ \A k \in 0..(block.max_elements - 1) :
                            k * element_sizes[i] < U16
====
